---- MODULE Spec2Model ----
(***************************************************************************)
(* The STDIO-RPC harness scripts of openact (test_stdio_rpc_e2e.py and     *)
(* test_stdio_rpc.py) driving a child process over line-delimited JSON-RPC.*)
(*                                                                         *)
(* Strings are sequences of tokens; Python's substring test `a in b` is    *)
(* IsSubstr(a, b) on those sequences.  A JSON object is a record with the  *)
(* set of keys it holds.  The harness runs from one blocking point (a      *)
(* write to the child's stdin, a readline on its stdout) to the next.      *)
(***************************************************************************)
EXTENDS Integers, Sequences, FiniteSets, TLC

VARIABLES
    script,         \* which program runs: "e2e" (main), "basic" (test_stdio_rpc),
                    \* "callback_server"
    pc,             \* the call the script is at, or "start"/"finally"/"wait"/"exited"
    io,             \* "idle": request of pc not yet written; "written": waiting in readline
    r,              \* the value send_rpc_request returned last (r, ru, rl, rg, response)
    action_trn,     \* local of main
    auth_trn,       \* local of main
    execution_trn,  \* local of main
    tenant,         \* local of main
    provider,       \* local of main
    action_name,    \* local of main
    outcome,        \* "RUNNING", "DONE" (the final print was reached), "FAILED" (an exception left the try body)
    sent,           \* history: the requests written to the child's stdin, in order
    resolved,       \* history: how the script resolved each step, in order
    tfail,          \* history: the first transport failure (write error, undecodable line, EOF)
    child,          \* "none", "running", "exited"
    stdin,          \* the request line in the child's input pipe, not yet consumed
    stdout,         \* the response line in the child's output pipe, not yet read
    sigterm,        \* SIGTERM was delivered to the child
    terminateCalls, \* number of process.terminate() calls
    killCalls,      \* number of process.kill() calls
    runNo,          \* which run of the script against the same backing service this is
    svc,            \* the backing state of the service (database)
    args,           \* the arguments of a direct call of send_rpc_request
    cb_file,        \* callback server: the content of /tmp/github_auth_code.txt
    cb_path,        \* callback server: self.path of the request handled last
    cb_status       \* callback server: the status of the response sent last

\* the state of the callback server
cb_vars == <<cb_file, cb_path, cb_status>>

vars == <<script, pc, io, r, action_trn, auth_trn, execution_trn, tenant, provider,
          action_name, outcome, sent, resolved, tfail, child, stdin, stdout, sigterm,
          terminateCalls, killCalls, runNo, svc, args, cb_vars>>

(***************************************************************************)
(* Bounds of the model.                                                    *)
(***************************************************************************)
\* how many times the end-to-end script is run against the same backing state
MaxRuns == 2
\* how many entries a connections list holds at most
MaxConns == 2
\* the largest request id of a direct call of send_rpc_request
MaxId == 2
\* how many parameters the query of a callback request holds at most
MaxQuery == 2

(***************************************************************************)
(* Strings.                                                                *)
(***************************************************************************)
\* Python `sub in s` on strings
IsSubstr(sub, s) ==
    \E i \in 0..(Len(s) - Len(sub)) : SubSeq(s, i + 1, i + Len(sub)) = sub

\* a local that has not been assigned yet
Unset == <<"<unset>">>

tenant_test == <<"test">>
provider_github == <<"github">>
action_name_get_user == <<"get-user">>
action_yaml == <<"./providers/github/actions/get-user.openapi.yaml">>
basic_yaml == <<"./providers/github/actions/get-user.yaml">>
user_id == <<"user1">>
access_token == <<"dummy-token-for-test">>

\* mutant: provider and action name swapped in the synthesized handle
expected_action_trn_swapped(t, p, n) ==
    <<"trn:openact:">> \o t \o <<":action/">> \o n \o <<"/">> \o p \o <<"@v1">>

\* f"trn:openact:{tenant}:action/{provider}/{action_name}@v1"
expected_action_trn(t, p, n) ==
    <<"trn:openact:">> \o t \o <<":action/">> \o p \o <<"/">> \o n \o <<"@v1">>

\* the three markers of an existing action
MarkerUnique == <<"UNIQUE constraint failed: ", "actions.trn">>
MarkerExists == <<"already exists">>
MarkerInvalid == <<"Invalid input">>

\* mutant: only the "already exists" marker is recognised
IsKnownConflictExistsOnly(msg) == IsSubstr(MarkerExists, msg)

IsKnownConflict(msg) ==
    \/ IsSubstr(MarkerUnique, msg)
    \/ IsSubstr(MarkerExists, msg)
    \/ IsSubstr(MarkerInvalid, msg)

(***************************************************************************)
(* JSON values.  An object carries the set of its keys; the value of an    *)
(* absent key is a placeholder that is never read.                         *)
(***************************************************************************)
\* the value under "result": an object with its keys, a string with its text,
\* or another scalar (null, true, 0)
ObjResult(keys, trn, list) ==
    [isObj |-> TRUE, isStr |-> FALSE, keys |-> keys, trn |-> trn, list |-> list,
     text |-> <<>>]
StrResult(text) ==
    [isObj |-> FALSE, isStr |-> TRUE, keys |-> {}, trn |-> <<>>, list |-> <<>>,
     text |-> text]
ScalarResult ==
    [isObj |-> FALSE, isStr |-> FALSE, keys |-> {}, trn |-> <<>>, list |-> <<>>,
     text |-> <<>>]
AbsentResult == ObjResult({}, <<>>, <<>>)

\* the value under "error": an object, with or without "message", or a scalar
ErrorObj(hasMessage, msg) ==
    [isObj |-> TRUE, hasMessage |-> hasMessage, message |-> msg]
ErrorScalar == [isObj |-> FALSE, hasMessage |-> FALSE, message |-> <<>>]
AbsentError == ErrorObj(FALSE, <<>>)

\* a response object
RespObj(keys, id, result, error) ==
    [isDict |-> TRUE, keys |-> keys, id |-> id, result |-> result, error |-> error,
     text |-> <<>>]

\* a line that is valid JSON but a string, not an object
StrResp(text) ==
    [isDict |-> FALSE, keys |-> {}, id |-> 0, result |-> AbsentResult,
     error |-> AbsentError, text |-> text]

\* an entry of a JSON list: a string, or something that is not a string
StrEntry(s) == [isStr |-> TRUE, s |-> s]
NonStrEntry(s) == [isStr |-> FALSE, s |-> s]

\* a line on the child's stdout: enc is "json" (a JSON object), "badjson" (not
\* JSON), "badutf8" (bytes that are not UTF-8) or "eof" (b"", the stream ended)
JsonLine(obj) == [enc |-> "json", obj |-> obj]
BadJsonLine == [enc |-> "badjson", obj |-> RespObj({}, 0, AbsentResult, AbsentError)]
BadUtf8Line == [enc |-> "badutf8", obj |-> RespObj({}, 0, AbsentResult, AbsentError)]
EofLine == [enc |-> "eof", obj |-> RespObj({}, 0, AbsentResult, AbsentError)]

\* Python None, as send_rpc_request returns it
None == [isNone |-> TRUE, obj |-> RespObj({}, 0, AbsentResult, AbsentError)]

\* json.loads(resp_line) inside try/except: the parsed object, or None
json_loads(line) ==
    IF line.enc = "json" THEN [isNone |-> FALSE, obj |-> line.obj] ELSE None

\* readline().decode() raises UnicodeDecodeError outside the try of send_rpc_request
decode_raises(line) == line.enc = "badutf8"

\* Python truth of a returned value: None, {} and "" are false
Truthy(v) == ~v.isNone /\ (IF v.obj.isDict THEN v.obj.keys # {} ELSE v.obj.text # <<>>)

\* Python `key in r`: a key of a dict, a substring of a str
In(key, v) == IF v.obj.isDict THEN key \in v.obj.keys ELSE IsSubstr(<<key>>, v.obj.text)

\* `r and "result" in r`
HasResult(v) == Truthy(v) /\ In("result", v)

\* `"error" in r`
HasError(v) == In("error", v)

(***************************************************************************)
(* Requests.                                                               *)
(***************************************************************************)
\* the params argument of send_rpc_request: None, or a mapping
NoParams == [isNone |-> TRUE, map |-> <<>>]
Params(map) == [isNone |-> FALSE, map |-> map]

\* send_rpc_request of test_stdio_rpc_e2e.py: `if params is not None`
e2e_request(method, params, request_id) ==
    [jsonrpc |-> "2.0", method |-> method, id |-> request_id,
     hasParams |-> ~params.isNone,
     params |-> IF ~params.isNone THEN params.map ELSE <<>>]

\* send_rpc_request of test_stdio_rpc.py: `if params`
basic_request(method, params, request_id) ==
    [jsonrpc |-> "2.0", method |-> method, id |-> request_id,
     hasParams |-> (~params.isNone /\ params.map # <<>>),
     params |-> IF ~params.isNone /\ params.map # <<>> THEN params.map ELSE <<>>]

\* the default request_id=1 of send_rpc_request
default_request_id == 1

\* a member of a JSON object as json.dumps writes it: "key": value
Member(k, v) == [k |-> k, v |-> v]

\* the line terminator
Newline == Member("\n", <<>>)

\* json.dumps(req): the members of the dict in insertion order; "params" is
\* written only when the dict holds it
json_dumps(req) ==
    <<Member("jsonrpc", req.jsonrpc), Member("method", req.method), Member("id", req.id)>>
    \o (IF req.hasParams THEN <<Member("params", req.params)>> ELSE <<>>)

\* line = json.dumps(req) + "\n"; line.encode()
encode(req) == Append(json_dumps(req), Newline)

\* the reader of the child's stdin: one line up to its terminator, parsed as a
\* JSON object; a member that is not on the line is absent from the request
has_member(ms, k) == \E i \in 1..Len(ms) : ms[i].k = k
member(ms, k) == ms[CHOOSE i \in 1..Len(ms) : ms[i].k = k].v
decode(line) ==
    LET ms == SelectSeq(line, LAMBDA e : e.k # "\n") IN
    [jsonrpc |-> member(ms, "jsonrpc"), method |-> member(ms, "method"),
     id |-> member(ms, "id"), hasParams |-> has_member(ms, "params"),
     params |-> IF has_member(ms, "params") THEN member(ms, "params") ELSE <<>>]

\* no call of send_rpc_request from outside the two scripts
NoArgs == [method |-> "", params |-> NoParams, request_id |-> 0]

(***************************************************************************)
(* The calls of the two scripts and the requests they build.               *)
(***************************************************************************)
\* the calls of main (test_stdio_rpc_e2e.py), in program order
E2ECalls ==
    <<"health", "action.delete", "action.register", "action.update", "auth.pat",
      "auth.list", "binding.create", "binding.get", "run", "execution.get",
      "execution.list">>

\* the calls of test_stdio_rpc (test_stdio_rpc.py), in program order
BasicCalls == <<"health", "status", "doctor", "invalid_method", "action.register">>

Range(seq) == {seq[i] : i \in 1..Len(seq)}

\* the params main passes to send_rpc_request for the call m
e2e_params(m) ==
    CASE m = "action.delete" ->
           Params([trn |-> expected_action_trn(tenant, provider, action_name)])
      [] m = "action.register" ->
           Params([config_path |-> action_yaml, tenant |-> tenant,
                   provider |-> provider, name |-> action_name])
      [] m = "action.update" ->
           Params([trn |-> action_trn, config_path |-> action_yaml])
      [] m = "auth.pat" ->
           Params([tenant |-> tenant, provider |-> provider, user_id |-> user_id,
                   access_token |-> access_token])
      [] m = "binding.create" ->
           Params([tenant |-> tenant, action_trn |-> action_trn, auth_trn |-> auth_trn])
      [] m = "binding.get" ->
           Params([tenant |-> tenant, action_trn |-> action_trn])
      [] m = "run" ->
           Params([tenant |-> tenant, action_trn |-> action_trn])
      [] m = "execution.get" ->
           Params([execution_trn |-> execution_trn])
      [] m = "execution.list" ->
           Params([tenant |-> tenant, limit |-> 10, offset |-> 0])
      [] OTHER -> NoParams

\* the params test_stdio_rpc passes to send_rpc_request for the call m
basic_params(m) ==
    IF m = "action.register"
    THEN Params([config_path |-> basic_yaml, tenant |-> tenant_test,
                 provider |-> provider_github, name |-> action_name_get_user])
    ELSE NoParams

\* the workflow step a call of main belongs to, named by the step's primary call
StepOf(m) ==
    CASE m = "action.delete" -> "action.register"
      [] m = "auth.list" -> "auth.pat"
      [] m = "binding.get" -> "binding.create"
      [] OTHER -> m

(***************************************************************************)
(* What main does with the value a call returned, up to its next call.     *)
(* A continuation names the next call, the locals, and how the step was    *)
(* resolved: "Success", "KnownConflict", "Fatal", or "-" (not resolved by  *)
(* this call).                                                             *)
(***************************************************************************)
Cont(next, res) ==
    [next |-> next, res |-> res, done |-> FALSE, action_trn |-> action_trn,
     auth_trn |-> auth_trn, execution_trn |-> execution_trn]

\* an exception leaves the try body: AssertionError, KeyError, TypeError, ...
Raise == Cont("finally", "Fatal")

\* mutant: the assert on the health response is missing
after_health_unchecked(v) ==
    Cont("action.delete", IF HasResult(v) THEN "Success" ELSE "-")

\* `assert r and "result" in r`
after_health(v) ==
    IF HasResult(v) THEN Cont("action.delete", "Success") ELSE Raise

\* the value of action.delete is dropped
after_action_delete(v) == Cont("action.register", "-")

\* (r or {}).get("error", {}).get("message", "")
error_message(v) ==
    IF Truthy(v) /\ v.obj.isDict /\ HasError(v) /\ v.obj.error.isObj
       /\ v.obj.error.hasMessage
    THEN v.obj.error.message
    ELSE <<>>

\* .get on a str, or on an "error" that is no object, raises AttributeError
error_message_raises(v) ==
    Truthy(v) /\ (~v.obj.isDict \/ (HasError(v) /\ ~v.obj.error.isObj))

\* r["result"][key] raises TypeError on a str or a scalar and KeyError on a
\* missing key
subscript_raises(v, key) ==
    ~v.obj.isDict \/ ~v.obj.result.isObj \/ key \notin v.obj.result.keys

\* `key in r["result"]`: a key of an object, a substring of a string; the
\* subscript raises on a str r, the test raises on null, true or a number
in_result(v, key) ==
    /\ v.obj.isDict
    /\ IF v.obj.result.isObj THEN key \in v.obj.result.keys
       ELSE v.obj.result.isStr /\ IsSubstr(<<key>>, v.obj.result.text)

\* mutant: every response without a result is taken as an existing action
after_action_register_any_error(v) ==
    IF HasResult(v)
    THEN IF subscript_raises(v, "action_trn")
         THEN Raise
         ELSE [Cont("action.update", "Success") EXCEPT !.action_trn = v.obj.result.trn]
    ELSE [Cont("action.update", "KnownConflict") EXCEPT
              !.action_trn = expected_action_trn(tenant, provider, action_name)]

after_action_register(v) ==
    IF HasResult(v)
    THEN IF subscript_raises(v, "action_trn")
         THEN Raise
         ELSE [Cont("action.update", "Success") EXCEPT !.action_trn = v.obj.result.trn]
    ELSE IF error_message_raises(v)
         THEN Raise
         ELSE IF IsKnownConflict(error_message(v))
              THEN [Cont("action.update", "KnownConflict") EXCEPT
                        !.action_trn = expected_action_trn(tenant, provider, action_name)]
              ELSE Raise

\* `assert ru and ("result" in ru or "error" not in ru)`
after_action_update(v) ==
    IF Truthy(v) /\ (In("result", v) \/ ~HasError(v))
    THEN Cont("auth.pat", "Success")
    ELSE Raise

\* mutant: a failed auth.pat goes on to binding.create without the auth.list lookup
after_auth_pat_no_lookup(v) ==
    IF HasResult(v) /\ ~subscript_raises(v, "connection_trn")
    THEN [Cont("binding.create", "Success") EXCEPT !.auth_trn = v.obj.result.trn]
    ELSE Cont("binding.create", "KnownConflict")

after_auth_pat(v) ==
    IF HasResult(v)
    THEN IF subscript_raises(v, "connection_trn")
         THEN Raise
         ELSE [Cont("binding.create", "Success") EXCEPT !.auth_trn = v.obj.result.trn]
    ELSE Cont("auth.list", "-")

\* mutant: the provider is not looked for
is_candidate_tenant_only(c) == c.isStr /\ IsSubstr(tenant, c.s)

\* isinstance(c, str) and tenant in c and provider in c
is_candidate(c) == c.isStr /\ IsSubstr(tenant, c.s) /\ IsSubstr(provider, c.s)

\* [c for c in conns if ...]
candidates_of(conns) == SelectSeq(conns, is_candidate)

after_auth_list(v) ==
    IF ~HasResult(v) \/ ~v.obj.isDict \/ ~v.obj.result.isObj
    THEN Raise
    ELSE LET conns == IF "connections" \in v.obj.result.keys
                      THEN v.obj.result.list ELSE <<>>
             candidates == candidates_of(conns)
         IN  IF candidates # <<>>
             THEN [Cont("binding.create", "KnownConflict") EXCEPT
                       !.auth_trn = candidates[1].s]
             ELSE Raise

\* mutant: binding.get is called whatever binding.create returned
after_binding_create_always_get(v) == Cont("binding.get", "-")

after_binding_create(v) ==
    IF HasResult(v) THEN Cont("run", "Success") ELSE Cont("binding.get", "-")

after_binding_get(v) ==
    IF HasResult(v) THEN Cont("run", "KnownConflict") ELSE Raise

after_run(v) ==
    IF HasResult(v) /\ ~subscript_raises(v, "execution_trn")
    THEN [Cont("execution.get", "Success") EXCEPT !.execution_trn = v.obj.result.trn]
    ELSE Raise

\* `assert r and "result" in r and "execution" in r["result"]`
after_execution_get(v) ==
    IF HasResult(v) /\ in_result(v, "execution")
    THEN Cont("execution.list", "Success")
    ELSE Raise

\* the last assert, then print("E2E STDIO-RPC OK")
after_execution_list(v) ==
    IF HasResult(v) /\ in_result(v, "executions")
    THEN [Cont("finally", "Success") EXCEPT !.done = TRUE]
    ELSE Raise

(***************************************************************************)
(* What test_stdio_rpc does with the value a call returned.                *)
(***************************************************************************)
\* tests 1 to 4 print a verdict and go on
basic_after_check(next) == Cont(next, "-")

\* test 5 reads response['error']['message'], then prints "All tests completed"
basic_after_register(v) ==
    IF Truthy(v) /\ ~In("result", v) /\ HasError(v)
       /\ (~v.obj.isDict \/ ~v.obj.error.isObj \/ ~v.obj.error.hasMessage)
    THEN Raise
    ELSE [Cont("finally", "-") EXCEPT !.done = TRUE]

(***************************************************************************)
(* The child process as a black box: to each request it answers with any   *)
(* one line.  The lines offered per method cover every distinction the     *)
(* scripts make.                                                           *)
(***************************************************************************)
MsgUnique == <<"Database error: ">> \o MarkerUnique
MsgExists == <<"Action ", "already exists", " for tenant">>
MsgInvalid == <<"Invalid input", ": trn is taken">>
MsgOtherUnique == <<"UNIQUE constraint failed: ", "bindings.id">>
MsgNotFound == <<"Method not found">>
Msgs == {MsgUnique, MsgExists, MsgInvalid, MsgOtherUnique, MsgNotFound, <<>>}

OtherActionTrn == <<"trn:openact:", "test", ":action/", "github", "/", "get-user", "@v2">>
ConnUser1 == <<"trn:openact:", "test", ":connection/", "github", "/", "user1">>
ConnUser2 == <<"trn:openact:", "test", ":connection/", "github", "/", "user2">>
ConnSlack == <<"trn:openact:", "test", ":connection/", "slack", "/", "user1">>
Exec1 == <<"trn:openact:", "test", ":execution/", "1">>
Exec2 == <<"trn:openact:", "test", ":execution/", "2">>

ConnEntries ==
    {StrEntry(ConnUser1), StrEntry(ConnUser2), StrEntry(ConnSlack),
     NonStrEntry(<<"test", "github">>)}

SeqsUpTo(S, n) == UNION {[1..k -> S] : k \in 0..n}

\* the values a child may put under "result" for the method m
ResultsFor(m) ==
    {ObjResult({}, <<>>, <<>>), ScalarResult} \cup
    CASE m = "action.register" ->
           {ObjResult({"action_trn"}, t, <<>>) :
                t \in {expected_action_trn(tenant_test, provider_github,
                                           action_name_get_user), OtherActionTrn}}
      [] m = "auth.pat" ->
           {ObjResult({"connection_trn"}, t, <<>>) : t \in {ConnUser1, ConnUser2}}
      [] m = "auth.list" ->
           {ObjResult({"connections"}, <<>>, l) : l \in SeqsUpTo(ConnEntries, MaxConns)}
      [] m = "run" ->
           {ObjResult({"execution_trn"}, t, <<>>) : t \in {Exec1, Exec2}}
      [] m = "execution.get" ->
           {ObjResult({"execution"}, <<>>, <<>>), StrResult(<<"no ", "execution">>)}
      [] m = "execution.list" ->
           {ObjResult({"executions"}, <<>>, l) :
                l \in {<<>>, <<StrEntry(Exec1)>>, <<StrEntry(Exec2), StrEntry(Exec1)>>}}
           \cup {StrResult(<<"executions", " unavailable">>)}
      [] OTHER -> {}

\* the lines a child may answer the method m with
LinesFor(m) ==
    {BadJsonLine, BadUtf8Line,
     JsonLine(StrResp(<<"result", " pending">>)),
     JsonLine(StrResp(<<"busy">>)),
     JsonLine(RespObj({}, 0, AbsentResult, AbsentError)),
     JsonLine(RespObj({"jsonrpc", "id"}, 1, AbsentResult, AbsentError)),
     JsonLine(RespObj({"jsonrpc", "id", "error"}, 1, AbsentResult, ErrorObj(FALSE, <<>>))),
     JsonLine(RespObj({"jsonrpc", "id", "error"}, 1, AbsentResult, ErrorScalar))}
    \cup {JsonLine(RespObj({"jsonrpc", "id", "error"}, 1, AbsentResult, ErrorObj(TRUE, msg))) :
            msg \in Msgs}
    \cup {JsonLine(RespObj({"jsonrpc", "id", "result"}, 1, res, AbsentError)) :
            res \in ResultsFor(m)}
    \cup {JsonLine(RespObj({"jsonrpc", "id", "result"}, 2, res, AbsentError)) :
            res \in ResultsFor(m)}
    \cup {JsonLine(RespObj({"jsonrpc", "id", "result", "error"}, 1, res,
                           ErrorObj(TRUE, MsgNotFound))) :
            res \in ResultsFor(m)}

\* the child reads the request and writes one line
ChildRespond ==
    /\ child = "running"
    /\ stdin # <<>>
    /\ \E line \in LinesFor(decode(Head(stdin)).method) :
           /\ stdin' = Tail(stdin)
           /\ stdout' = Append(stdout, line)
    /\ UNCHANGED <<cb_vars, args, script, pc, io, r, action_trn, auth_trn, execution_trn, tenant,
                   provider, action_name, outcome, sent, resolved, tfail, child,
                   sigterm, terminateCalls, killCalls, runNo, svc>>

\* the child exits on its own (a crash): its pipes close
ChildCrash ==
    /\ child = "running"
    /\ ~sigterm
    /\ child' = "exited"
    /\ stdin' = <<>>
    /\ UNCHANGED <<cb_vars, args, script, pc, io, r, action_trn, auth_trn, execution_trn, tenant,
                   provider, action_name, outcome, sent, resolved, tfail, stdout,
                   sigterm, terminateCalls, killCalls, runNo, svc>>

\* the child exits on SIGTERM; a child that ignores the signal never takes this step
ChildTermExit ==
    /\ child = "running"
    /\ sigterm
    /\ child' = "exited"
    /\ stdin' = <<>>
    /\ UNCHANGED <<cb_vars, args, script, pc, io, r, action_trn, auth_trn, execution_trn, tenant,
                   provider, action_name, outcome, sent, resolved, tfail, stdout,
                   sigterm, terminateCalls, killCalls, runNo, svc>>

(***************************************************************************)
(* send_rpc_request: the write, then the readline.                         *)
(***************************************************************************)
NoFail == [set |-> FALSE, method |-> "", kind |-> "", nsent |-> 0]

\* history entry: the step of call m was resolved by continuation k after nsent
\* requests had been written; handle is the local the step assigns
Resolution(m, k) ==
    [step |-> StepOf(m), outcome |-> k.res, nsent |-> Len(sent),
     handle |-> CASE StepOf(m) = "action.register" -> k.action_trn
                  [] StepOf(m) = "auth.pat" -> k.auth_trn
                  [] StepOf(m) = "run" -> k.execution_trn
                  [] OTHER -> <<>>]

\* mutant: an exception ends the script without running the finally block
ExceptTargetNoFinally == "exited"

\* where control goes when an exception leaves the try body: the finally block
ExceptTarget == "finally"

\* process.stdin.write(line); process.stdin.flush(): BrokenPipeError once the
\* child is gone, else the request is in the pipe
Write(req) ==
    /\ io = "idle"
    /\ IF child = "exited"
       THEN /\ pc' = ExceptTarget
            /\ outcome' = "FAILED"
            /\ resolved' = Append(resolved, Resolution(pc, Raise))
            /\ tfail' = IF tfail.set THEN tfail
                        ELSE [set |-> TRUE, method |-> pc, kind |-> "write",
                              nsent |-> Len(sent)]
            /\ UNCHANGED <<io, stdin, sent>>
       ELSE /\ stdin' = Append(stdin, encode(req))
            /\ sent' = Append(sent, req)
            /\ io' = "written"
            /\ UNCHANGED <<pc, outcome, resolved, tfail>>
    /\ UNCHANGED <<cb_vars, args, script, r, action_trn, auth_trn, execution_trn, tenant, provider,
                   action_name, child, stdout, sigterm, terminateCalls, killCalls,
                   runNo, svc>>

\* mutant: the script reads without having written its request
ReadingWithoutWrite(m) == pc = m /\ (stdout # <<>> \/ child = "exited")

\* readline() returns when a line is in the pipe, or at the end of the stream
Reading(m) == pc = m /\ io = "written" /\ (stdout # <<>> \/ child = "exited")

\* the line readline() returns: b"" at the end of the stream
LineRead == IF stdout # <<>> THEN Head(stdout) ELSE EofLine

\* the script runs on from the readline to its next call with continuation k
Return(k) ==
    /\ io' = "idle"
    /\ stdout' = IF stdout # <<>> THEN Tail(stdout) ELSE stdout
    /\ r' = IF decode_raises(LineRead) THEN r ELSE json_loads(LineRead)
    /\ pc' = IF k.res = "Fatal" THEN ExceptTarget ELSE k.next
    /\ action_trn' = k.action_trn
    /\ auth_trn' = k.auth_trn
    /\ execution_trn' = k.execution_trn
    /\ outcome' = IF k.res = "Fatal" THEN "FAILED"
                  ELSE IF k.done THEN "DONE" ELSE outcome
    /\ resolved' = IF k.res = "-" THEN resolved
                   ELSE Append(resolved, Resolution(pc, k))
    /\ tfail' = IF ~tfail.set /\ LineRead.enc # "json"
                THEN [set |-> TRUE, method |-> pc, kind |-> LineRead.enc,
                      nsent |-> Len(sent)]
                ELSE tfail
    /\ UNCHANGED <<cb_vars, args, script, tenant, provider, action_name, sent, child, stdin, sigterm,
                   terminateCalls, killCalls, runNo, svc>>

\* the value send_rpc_request returns
Returned == json_loads(LineRead)

\* the continuation k of the code after the call, unless the decode raised
Decide(k) == IF decode_raises(LineRead) THEN Raise ELSE k

(***************************************************************************)
(* main of test_stdio_rpc_e2e.py.                                          *)
(***************************************************************************)
\* subprocess.Popen before the try: a failure ends the script, nothing was started
e2e_Popen ==
    /\ script = "e2e"
    /\ pc = "start"
    /\ \E ok \in BOOLEAN :
          IF ok THEN /\ child' = "running"
                     /\ pc' = "health"
                     /\ UNCHANGED outcome
                ELSE /\ pc' = "exited"
                     /\ outcome' = "FAILED"
                     /\ UNCHANGED child
    /\ UNCHANGED <<cb_vars, args, script, io, r, action_trn, auth_trn, execution_trn, tenant, provider,
                   action_name, sent, resolved, tfail, stdin, stdout, sigterm,
                   terminateCalls, killCalls, runNo, svc>>

e2e_send ==
    /\ script = "e2e"
    /\ pc \in Range(E2ECalls)
    /\ Write(e2e_request(pc, e2e_params(pc), default_request_id))

Health == script = "e2e" /\ Reading("health") /\ Return(Decide(after_health(Returned)))

ActionDelete ==
    script = "e2e" /\ Reading("action.delete") /\ Return(Decide(after_action_delete(Returned)))

ActionRegister ==
    script = "e2e" /\ Reading("action.register") /\ Return(Decide(after_action_register(Returned)))

ActionUpdate ==
    script = "e2e" /\ Reading("action.update") /\ Return(Decide(after_action_update(Returned)))

AuthPat == script = "e2e" /\ Reading("auth.pat") /\ Return(Decide(after_auth_pat(Returned)))

AuthList == script = "e2e" /\ Reading("auth.list") /\ Return(Decide(after_auth_list(Returned)))

BindingCreate ==
    script = "e2e" /\ Reading("binding.create") /\ Return(Decide(after_binding_create(Returned)))

BindingGet ==
    script = "e2e" /\ Reading("binding.get") /\ Return(Decide(after_binding_get(Returned)))

Run == script = "e2e" /\ Reading("run") /\ Return(Decide(after_run(Returned)))

ExecutionGet ==
    script = "e2e" /\ Reading("execution.get") /\ Return(Decide(after_execution_get(Returned)))

ExecutionList ==
    script = "e2e" /\ Reading("execution.list") /\ Return(Decide(after_execution_list(Returned)))

\* finally: process.terminate()
e2e_terminate ==
    /\ script = "e2e"
    /\ pc = "finally"
    /\ terminateCalls' = terminateCalls + 1
    /\ sigterm' = (sigterm \/ child = "running")
    /\ pc' = "wait"
    /\ UNCHANGED <<cb_vars, args, script, io, r, action_trn, auth_trn, execution_trn, tenant, provider,
                   action_name, outcome, sent, resolved, tfail, child, stdin, stdout,
                   killCalls, runNo, svc>>

\* mutant: process.wait() without a timeout, and no kill
e2e_wait_no_timeout ==
    /\ script = "e2e"
    /\ pc = "wait"
    /\ child = "exited"
    /\ pc' = "exited"
    /\ UNCHANGED <<cb_vars, args, script, io, r, action_trn, auth_trn, execution_trn,
                   tenant, provider, action_name, outcome, sent, resolved, tfail, child,
                   stdin, stdout, sigterm, terminateCalls, killCalls, runNo, svc>>

\* process.wait(timeout=5); on TimeoutExpired the except branch calls process.kill()
e2e_wait ==
    /\ script = "e2e"
    /\ pc = "wait"
    /\ IF child = "exited"
       THEN UNCHANGED <<child, killCalls, stdin>>
       ELSE /\ killCalls' = killCalls + 1
            /\ child' = "exited"
            /\ stdin' = <<>>
    /\ pc' = "exited"
    /\ UNCHANGED <<cb_vars, args, script, io, r, action_trn, auth_trn, execution_trn, tenant, provider,
                   action_name, outcome, sent, resolved, tfail, stdout, sigterm,
                   terminateCalls, runNo, svc>>

E2ENext ==
    \/ e2e_Popen \/ e2e_send
    \/ Health \/ ActionDelete \/ ActionRegister \/ ActionUpdate \/ AuthPat \/ AuthList
    \/ BindingCreate \/ BindingGet \/ Run \/ ExecutionGet \/ ExecutionList
    \/ e2e_terminate \/ e2e_wait

(***************************************************************************)
(* test_stdio_rpc of test_stdio_rpc.py.                                    *)
(***************************************************************************)
\* subprocess.Popen inside the try: a failure is caught, then the finally block
basic_Popen ==
    /\ script = "basic"
    /\ pc = "start"
    /\ \E ok \in BOOLEAN :
          IF ok THEN /\ child' = "running"
                     /\ pc' = "health"
                     /\ UNCHANGED outcome
                ELSE /\ pc' = ExceptTarget
                     /\ outcome' = "FAILED"
                     /\ UNCHANGED child
    /\ UNCHANGED <<cb_vars, args, script, io, r, action_trn, auth_trn, execution_trn, tenant, provider,
                   action_name, sent, resolved, tfail, stdin, stdout, sigterm,
                   terminateCalls, killCalls, runNo, svc>>

basic_send ==
    /\ script = "basic"
    /\ pc \in Range(BasicCalls)
    /\ Write(basic_request(pc, basic_params(pc), default_request_id))

\* the call after m in test_stdio_rpc
basic_next(m) ==
    CASE m = "health" -> "status"
      [] m = "status" -> "doctor"
      [] m = "doctor" -> "invalid_method"
      [] m = "invalid_method" -> "action.register"

\* tests 1 to 4: health, status, doctor, invalid_method
basic_check ==
    /\ script = "basic"
    /\ pc \in {"health", "status", "doctor", "invalid_method"}
    /\ Reading(pc)
    /\ Return(Decide(basic_after_check(basic_next(pc))))

\* test 5: action.register
basic_register ==
    script = "basic" /\ Reading("action.register") /\ Return(Decide(basic_after_register(Returned)))

\* finally: if 'process' in locals(): process.terminate()
basic_terminate ==
    /\ script = "basic"
    /\ pc = "finally"
    /\ IF child = "none"
       THEN /\ pc' = "exited"
            /\ UNCHANGED <<terminateCalls, sigterm>>
       ELSE /\ terminateCalls' = terminateCalls + 1
            /\ sigterm' = (sigterm \/ child = "running")
            /\ pc' = "wait"
    /\ UNCHANGED <<cb_vars, args, script, io, r, action_trn, auth_trn, execution_trn, tenant, provider,
                   action_name, outcome, sent, resolved, tfail, child, stdin, stdout,
                   killCalls, runNo, svc>>

\* process.wait() without a timeout: returns once the child has exited
basic_wait ==
    /\ script = "basic"
    /\ pc = "wait"
    /\ child = "exited"
    /\ pc' = "exited"
    /\ UNCHANGED <<cb_vars, args, script, io, r, action_trn, auth_trn, execution_trn, tenant, provider,
                   action_name, outcome, sent, resolved, tfail, child, stdin, stdout,
                   sigterm, terminateCalls, killCalls, runNo, svc>>

BasicNext ==
    \/ basic_Popen \/ basic_send \/ basic_check \/ basic_register
    \/ basic_terminate \/ basic_wait

(***************************************************************************)
(* The two scripts against a child that may answer anything.               *)
(***************************************************************************)
\* the callback server is not running
NoFile == [exists |-> FALSE, content |-> ""]
NoRequest == [path |-> <<>>, query |-> <<>>]
CbIdle == cb_file = NoFile /\ cb_path = NoRequest /\ cb_status = 0

EmptySvc == [actions |-> {}, conns |-> <<>>, bindings |-> {}, execs |-> <<>>,
             returned |-> {}]

InitHarness ==
    /\ pc = "start"
    /\ io = "idle"
    /\ r = None
    /\ action_trn = Unset
    /\ auth_trn = Unset
    /\ execution_trn = Unset
    /\ outcome = "RUNNING"
    /\ sent = <<>>
    /\ resolved = <<>>
    /\ tfail = NoFail
    /\ child = "none"
    /\ stdin = <<>>
    /\ stdout = <<>>
    /\ sigterm = FALSE
    /\ terminateCalls = 0
    /\ killCalls = 0

Init ==
    /\ script \in {"e2e", "basic"}
    /\ InitHarness
    /\ tenant = tenant_test
    /\ provider = provider_github
    /\ action_name = action_name_get_user
    /\ runNo = 1
    /\ svc = EmptySvc
    /\ args = NoArgs
    /\ CbIdle

Next == E2ENext \/ BasicNext \/ ChildRespond \/ ChildCrash \/ ChildTermExit

Spec == Init /\ [][Next]_vars

\* one line of every kind the scripts tell apart: the lines of LinesFor that
\* echo the request id, hold not both result and error, hold a list of at most
\* one entry, and hold no message or one with and one without a marker
LiveLinesFor(m) ==
    {l \in LinesFor(m) :
        /\ l.obj.id # 2
        /\ ~({"result", "error"} \subseteq l.obj.keys)
        /\ Len(l.obj.result.list) <= 1
        /\ l.obj.error.message \in {<<>>, MsgUnique, MsgNotFound}}

\* the child reads the request and writes one line
ChildRespondLive ==
    /\ child = "running"
    /\ stdin # <<>>
    /\ \E line \in LiveLinesFor(decode(Head(stdin)).method) :
           /\ stdin' = Tail(stdin)
           /\ stdout' = Append(stdout, line)
    /\ UNCHANGED <<cb_vars, args, script, pc, io, r, action_trn, auth_trn, execution_trn,
                   tenant, provider, action_name, outcome, sent, resolved, tfail, child,
                   sigterm, terminateCalls, killCalls, runNo, svc>>

NextLive == E2ENext \/ BasicNext \/ ChildRespondLive \/ ChildCrash \/ ChildTermExit

\* the two scripts when each keeps running while it can take a step (a Python
\* process that is not blocked runs on) and the child answers every request it
\* has read unless it exits; a child may ignore SIGTERM for ever
SpecLive ==
    /\ Init
    /\ [][NextLive]_vars
    /\ WF_vars(E2ENext)
    /\ WF_vars(BasicNext)
    /\ WF_vars(ChildRespondLive)

(***************************************************************************)
(* The action-execution service behind the child process, from its RPC     *)
(* contract: it keeps actions, connections, bindings and executions across *)
(* runs, signals a conflict for what already exists, and builds handles as *)
(* colon/slash-delimited composite keys.                                   *)
(***************************************************************************)
Tenants == {<<"test">>, <<"prod">>}
Providers == {<<"github">>, <<"slack">>}
Names == {<<"get-user">>, <<"list-repos">>}

\* the handle the service gives an action
SvcActionTrn(t, p, n) ==
    <<"trn:openact:">> \o t \o <<":action/">> \o p \o <<"/">> \o n \o <<"@v1">>

\* the handle the service gives a connection
SvcConnTrn(t, p, u) ==
    <<"trn:openact:">> \o t \o <<":connection/">> \o p \o <<"/">> \o u

\* the handle the service gives its n-th execution
SvcExecTrn(t, n) == <<"trn:openact:">> \o t \o <<":execution/", ToString(n)>>

SvcOk(req, result) ==
    JsonLine(RespObj({"jsonrpc", "id", "result"}, req.id, result, AbsentError))

SvcErr(req, msg) ==
    JsonLine(RespObj({"jsonrpc", "id", "error"}, req.id, AbsentResult, ErrorObj(TRUE, msg)))

SvcNotFound == <<"Not found">>
SvcRefused == <<"Action ", "is in use">>
SvcConnExists == <<"Connection ", "already exists">>
SvcBindingExists == <<"UNIQUE constraint failed: ", "bindings.tenant, bindings.action_trn">>

\* the behaviours the contract leaves open: whether action.delete removes the
\* action ("a"), refuses ("b") or removes it with its bindings ("c"), and which
\* conflict message action.register gives
SvcModes == {"a", "b", "c"}

SvcEntries(seq) == [i \in 1..Len(seq) |-> StrEntry(seq[i])]

\* the line the service answers req with in state s, and its next state
SvcAnswer(req, s, mode) ==
    LET m == req.method
        q == req.params
    IN
    CASE m = "action.delete" ->
           IF q.trn \in s.actions /\ mode # "b"
           THEN [line |-> SvcOk(req, ObjResult({"deleted"}, <<>>, <<>>)),
                 svc |-> [s EXCEPT !.actions = @ \ {q.trn},
                                   !.bindings = IF mode = "c"
                                                THEN {b \in @ : b[2] # q.trn}
                                                ELSE @]]
           ELSE [line |-> SvcErr(req, IF q.trn \in s.actions THEN SvcRefused
                                      ELSE SvcNotFound),
                 svc |-> s]
      [] m = "action.register" ->
           LET trn == SvcActionTrn(q.tenant, q.provider, q.name) IN
           IF trn \in s.actions
           THEN [line |-> SvcErr(req, IF mode = "a" THEN MsgUnique ELSE MsgExists),
                 svc |-> s]
           ELSE [line |-> SvcOk(req, ObjResult({"action_trn"}, trn, <<>>)),
                 svc |-> [s EXCEPT !.actions = @ \cup {trn},
                                   !.returned = @ \cup {trn}]]
      [] m = "action.update" ->
           IF q.trn \in s.actions
           THEN [line |-> SvcOk(req, ObjResult({"updated"}, <<>>, <<>>)), svc |-> s]
           ELSE [line |-> SvcErr(req, SvcNotFound), svc |-> s]
      [] m = "auth.pat" ->
           LET trn == SvcConnTrn(q.tenant, q.provider, q.user_id) IN
           IF trn \in Range(s.conns)
           THEN [line |-> SvcErr(req, SvcConnExists), svc |-> s]
           ELSE [line |-> SvcOk(req, ObjResult({"connection_trn"}, trn, <<>>)),
                 svc |-> [s EXCEPT !.conns = Append(@, trn)]]
      [] m = "auth.list" ->
           [line |-> SvcOk(req, ObjResult({"connections"}, <<>>, SvcEntries(s.conns))),
            svc |-> s]
      [] m = "binding.create" ->
           LET key == <<q.tenant, q.action_trn>> IN
           IF q.action_trn \notin s.actions \/ q.auth_trn \notin Range(s.conns)
           THEN [line |-> SvcErr(req, SvcNotFound), svc |-> s]
           ELSE IF key \in s.bindings
                THEN [line |-> SvcErr(req, SvcBindingExists), svc |-> s]
                ELSE [line |-> SvcOk(req, ObjResult({"binding"}, <<>>, <<>>)),
                      svc |-> [s EXCEPT !.bindings = @ \cup {key}]]
      [] m = "binding.get" ->
           IF <<q.tenant, q.action_trn>> \in s.bindings
           THEN [line |-> SvcOk(req, ObjResult({"binding"}, <<>>, <<>>)), svc |-> s]
           ELSE [line |-> SvcErr(req, SvcNotFound), svc |-> s]
      [] m = "run" ->
           IF <<q.tenant, q.action_trn>> \in s.bindings /\ q.action_trn \in s.actions
           THEN LET trn == SvcExecTrn(q.tenant, Len(s.execs) + 1) IN
                [line |-> SvcOk(req, ObjResult({"execution_trn"}, trn, <<>>)),
                 svc |-> [s EXCEPT !.execs = Append(@, trn)]]
           ELSE [line |-> SvcErr(req, SvcNotFound), svc |-> s]
      [] m = "execution.get" ->
           IF q.execution_trn \in Range(s.execs)
           THEN [line |-> SvcOk(req, ObjResult({"execution"}, <<>>, <<>>)), svc |-> s]
           ELSE [line |-> SvcErr(req, SvcNotFound), svc |-> s]
      [] m = "execution.list" ->
           [line |-> SvcOk(req, ObjResult({"executions"}, <<>>, SvcEntries(s.execs))),
            svc |-> s]
      [] m \in {"health", "status", "doctor"} ->
           [line |-> SvcOk(req, ObjResult({"status"}, <<>>, <<>>)), svc |-> s]
      [] OTHER ->
           [line |-> SvcErr(req, MsgNotFound), svc |-> s]

\* the service reads the request and writes its answer
SvcRespond ==
    /\ child = "running"
    /\ stdin # <<>>
    /\ \E mode \in SvcModes :
           LET a == SvcAnswer(decode(Head(stdin)), svc, mode) IN
           /\ stdin' = Tail(stdin)
           /\ stdout' = Append(stdout, a.line)
           /\ svc' = a.svc
    /\ UNCHANGED <<cb_vars, args, script, pc, io, r, action_trn, auth_trn, execution_trn, tenant,
                   provider, action_name, outcome, sent, resolved, tfail, child,
                   sigterm, terminateCalls, killCalls, runNo>>

\* the script is started again; the backing state of the service stays
Rerun ==
    /\ pc = "exited"
    /\ runNo < MaxRuns
    /\ runNo' = runNo + 1
    /\ pc' = "start"
    /\ io' = "idle"
    /\ r' = None
    /\ action_trn' = Unset
    /\ auth_trn' = Unset
    /\ execution_trn' = Unset
    /\ outcome' = "RUNNING"
    /\ sent' = <<>>
    /\ resolved' = <<>>
    /\ tfail' = NoFail
    /\ child' = "none"
    /\ stdin' = <<>>
    /\ stdout' = <<>>
    /\ sigterm' = FALSE
    /\ terminateCalls' = 0
    /\ killCalls' = 0
    /\ UNCHANGED <<cb_vars, args, script, tenant, provider, action_name, svc>>

\* connections of other users, tenants and providers that exist before the first run
OldConns ==
    {SvcConnTrn(<<"test">>, <<"github">>, <<"user0">>),
     SvcConnTrn(<<"prod">>, <<"slack">>, <<"user1">>)}

InitSvc ==
    /\ script = "e2e"
    /\ InitHarness
    /\ tenant \in Tenants
    /\ provider \in Providers
    /\ action_name \in Names
    /\ runNo = 1
    /\ \E old \in SeqsUpTo(OldConns, MaxConns) : svc = [EmptySvc EXCEPT !.conns = old]
    /\ args = NoArgs
    /\ CbIdle

NextSvc == E2ENext \/ SvcRespond \/ ChildTermExit \/ Rerun

\* the end-to-end script run MaxRuns times against the service
SpecSvc == InitSvc /\ [][NextSvc]_vars

(***************************************************************************)
(* send_rpc_request of either script called on its own, with any method,   *)
(* params and request id.                                                  *)
(***************************************************************************)
WireMethods == {"health", "action.register", "execution.list"}

\* params=None, params={}, and mappings with string and integer values
WireParams ==
    {NoParams, Params(<<>>), Params([tenant |-> tenant_test]),
     Params([tenant |-> tenant_test, limit |-> 10, offset |-> 0])}

\* the dict send_rpc_request of the running script builds
request_of(method, params, request_id) ==
    IF script = "e2e" THEN e2e_request(method, params, request_id)
    ELSE basic_request(method, params, request_id)

\* send_rpc_request up to its write
send_rpc_request_write ==
    /\ pc = "send_rpc_request"
    /\ Write(request_of(args.method, args.params, args.request_id))

\* send_rpc_request from its readline to its return
send_rpc_request_return ==
    /\ Reading("send_rpc_request")
    /\ Return(Decide(Cont("exited", "-")))

InitWire ==
    /\ script \in {"e2e", "basic"}
    /\ args \in [method : WireMethods, params : WireParams, request_id : 0..MaxId]
    /\ pc = "send_rpc_request"
    /\ io = "idle"
    /\ r = None
    /\ action_trn = Unset
    /\ auth_trn = Unset
    /\ execution_trn = Unset
    /\ outcome = "RUNNING"
    /\ sent = <<>>
    /\ resolved = <<>>
    /\ tfail = NoFail
    /\ child = "running"
    /\ stdin = <<>>
    /\ stdout = <<>>
    /\ sigterm = FALSE
    /\ terminateCalls = 0
    /\ killCalls = 0
    /\ tenant = tenant_test
    /\ provider = provider_github
    /\ action_name = action_name_get_user
    /\ runNo = 1
    /\ svc = EmptySvc
    /\ CbIdle

NextWire == send_rpc_request_write \/ ChildRespond \/ send_rpc_request_return

SpecWire == InitWire /\ [][NextWire]_vars

(***************************************************************************)
(* The callback server (scripts/callback_server.py and its copy            *)
(* authflow/scripts/callback_server.py).  socketserver.TCPServer handles    *)
(* one request at a time.  self.path is the path and the query of the      *)
(* request line; a query is a sequence of name=value parameters.           *)
(***************************************************************************)
\* Python s.startswith(prefix)
StartsWith(prefix, s) ==
    Len(s) >= Len(prefix) /\ SubSeq(s, 1, Len(prefix)) = prefix

\* '/oauth/callback'
CallbackPrefix == <<"/oauth", "/callback">>

QueryParam(name, value) == [name |-> name, value |-> value]

\* parse_qs(parsed_url.query)[name]: the values given for name in their order;
\* parse_qs leaves out a parameter with a blank value (keep_blank_values=False)
parse_qs(query, name) ==
    LET named == SelectSeq(query, LAMBDA p : p.name = name)
    IN  SelectSeq(named, LAMBDA p : p.value # "")

\* query_params.get(name, [None])[0] is not None
qs_given(query, name) == parse_qs(query, name) # <<>>

\* query_params.get(name, [None])[0], when it is not None
qs_first(query, name) == parse_qs(query, name)[1].value

\* with open('/tmp/github_auth_code.txt', 'w') as f: f.write(code)
written_file(code) == [exists |-> TRUE, content |-> code]

\* mutant: the code is saved before the error parameter is looked at
CallbackHandler_code_first(q, file) ==
    IF StartsWith(CallbackPrefix, q.path)
    THEN IF qs_given(q.query, "code")
         THEN [status |-> 200, file |-> written_file(qs_first(q.query, "code"))]
         ELSE [status |-> 400, file |-> file]
    ELSE [status |-> 404, file |-> file]

\* do_GET on the request q: the status answered and the file afterwards
CallbackHandler(q, file) ==
    IF StartsWith(CallbackPrefix, q.path)
    THEN IF qs_given(q.query, "error")
         THEN [status |-> 400, file |-> file]
         ELSE IF qs_given(q.query, "code")
              THEN [status |-> 200, file |-> written_file(qs_first(q.query, "code"))]
              ELSE [status |-> 400, file |-> file]
    ELSE [status |-> 404, file |-> file]

\* the requests a client may send
CbPaths ==
    {<<"/oauth", "/callback">>, <<"/oauth", "/callback", "/done">>, <<"/oauth">>,
     <<"/">>}
CbParams ==
    {QueryParam("code", v) : v \in {"", "abc123", "xyz789"}}
    \cup {QueryParam("error", v) : v \in {"", "access_denied"}}
    \cup {QueryParam("state", "s1")}
CbRequests == [path : CbPaths, query : SeqsUpTo(CbParams, MaxQuery)]

do_GET ==
    /\ script = "callback_server"
    /\ \E q \in CbRequests :
           /\ cb_path' = q
           /\ cb_status' = CallbackHandler(q, cb_file).status
           /\ cb_file' = CallbackHandler(q, cb_file).file
    /\ UNCHANGED <<args, script, pc, io, r, action_trn, auth_trn, execution_trn, tenant,
                   provider, action_name, outcome, sent, resolved, tfail, child, stdin,
                   stdout, sigterm, terminateCalls, killCalls, runNo, svc>>

\* the server starts; the file of an earlier run may be there
InitCb ==
    /\ script = "callback_server"
    /\ cb_file \in {NoFile, written_file("old")}
    /\ cb_path = NoRequest
    /\ cb_status = 0
    /\ pc = "serve_forever"
    /\ io = "idle"
    /\ r = None
    /\ action_trn = Unset
    /\ auth_trn = Unset
    /\ execution_trn = Unset
    /\ outcome = "RUNNING"
    /\ sent = <<>>
    /\ resolved = <<>>
    /\ tfail = NoFail
    /\ child = "none"
    /\ stdin = <<>>
    /\ stdout = <<>>
    /\ sigterm = FALSE
    /\ terminateCalls = 0
    /\ killCalls = 0
    /\ tenant = tenant_test
    /\ provider = provider_github
    /\ action_name = action_name_get_user
    /\ runNo = 1
    /\ svc = EmptySvc
    /\ args = NoArgs

NextCb == do_GET

SpecCb == InitCb /\ [][NextCb]_vars

(***************************************************************************)
(* Claims.                                                                 *)
(***************************************************************************)
PrimaryOrder ==
    <<"health", "action.register", "action.update", "auth.pat", "binding.create",
      "run", "execution.get", "execution.list">>

Recovered == {"Success", "KnownConflict"}

\* the step was resolved to Success or to a recovered conflict before the
\* request at position i of sent was written
ResolvedBefore(step, i) ==
    \E j \in 1..Len(resolved) :
        /\ resolved[j].step = step
        /\ resolved[j].outcome \in Recovered
        /\ resolved[j].nsent < i

\* C1: one run of main issues the primary calls strictly in the order health,
\* action.register, action.update, auth.pat, binding.create, run, execution.get,
\* execution.list; the request of a step is written only after the step before
\* it was resolved to Success or to a recovered conflict; once a step is
\* resolved as fatal no further request is written and DONE is not reached.
C1_StepOrder ==
    script = "e2e" =>
        /\ \A i, j \in 1..Len(sent) : i < j => sent[i].method # sent[j].method
        /\ sent # <<>> => sent[1].method = "health"
        /\ \A i \in 1..Len(sent) : \A k \in 2..Len(PrimaryOrder) :
               sent[i].method = PrimaryOrder[k] =>
                   /\ \E h \in 1..(i - 1) : sent[h].method = PrimaryOrder[k - 1]
                   /\ ResolvedBefore(PrimaryOrder[k - 1], i)
        /\ \A j \in 1..Len(resolved) :
               resolved[j].outcome = "Fatal" =>
                   /\ j = Len(resolved)
                   /\ Len(sent) = resolved[j].nsent
                   /\ outcome = "FAILED"
        /\ outcome = "DONE" =>
               \A k \in 1..Len(PrimaryOrder) :
                   ResolvedBefore(PrimaryOrder[k], Len(sent) + 1)

\* C1 witness: a run that reached DONE through a recovered conflict
C1_Witness ==
    /\ script = "e2e"
    /\ outcome = "DONE"
    /\ pc = "exited"
    /\ \E j \in 1..Len(resolved) : resolved[j].outcome = "KnownConflict"

\* the handle h was assigned by the resolution of its producing step before
\* the request at position i of sent was written
Produced(step, h, i) ==
    /\ h # Unset
    /\ \E j \in 1..Len(resolved) :
           /\ resolved[j].step = step
           /\ resolved[j].outcome \in Recovered
           /\ resolved[j].nsent < i
           /\ resolved[j].handle = h

LastResolved == resolved[Len(resolved)]

\* C2: every action, auth-connection and execution handle in the params of a
\* written request was produced before the write, by the Success response of
\* action.register, auth.pat or run, or by the completed fallback of the step
\* (the synthesized action handle, an entry of the auth.list result); no
\* request carries an unset handle.
C2_HandlesProduced ==
    script = "e2e" =>
        /\ \A i \in 1..Len(sent) :
               LET q == sent[i] IN
               /\ q.method = "action.update" =>
                      Produced("action.register", q.params.trn, i)
               /\ q.method \in {"binding.create", "binding.get", "run"} =>
                      Produced("action.register", q.params.action_trn, i)
               /\ q.method = "binding.create" =>
                      Produced("auth.pat", q.params.auth_trn, i)
               /\ q.method = "execution.get" =>
                      Produced("run", q.params.execution_trn, i)
        /\ (pc = "action.update" /\ io = "idle") =>
               IF LastResolved.outcome = "Success"
               THEN "result" \in r.obj.keys /\ action_trn = r.obj.result.trn
               ELSE action_trn = <<"trn:openact:", "test", ":action/", "github", "/",
                                   "get-user", "@v1">>
        /\ (pc = "binding.create" /\ io = "idle") =>
               IF LastResolved.outcome = "Success"
               THEN "result" \in r.obj.keys /\ auth_trn = r.obj.result.trn
               ELSE \E n \in 1..Len(r.obj.result.list) :
                        auth_trn = r.obj.result.list[n].s
        /\ (pc = "execution.get" /\ io = "idle") =>
               "result" \in r.obj.keys /\ execution_trn = r.obj.result.trn

\* C2 witness: execution.get was written in a run whose action and auth
\* handles both came from the fallbacks
C2_Witness ==
    /\ script = "e2e"
    /\ \E i \in 1..Len(sent) : sent[i].method = "execution.get"
    /\ \E j \in 1..Len(resolved) :
           resolved[j].step = "action.register" /\ resolved[j].outcome = "KnownConflict"
    /\ \E j \in 1..Len(resolved) :
           resolved[j].step = "auth.pat" /\ resolved[j].outcome = "KnownConflict"

\* C3: for every started child process, process.terminate() is called exactly
\* once on every exit path of both scripts (success, failed assertion, any
\* other exception, a write to a closed pipe), never more than once, and the
\* child is not running when the script has exited.
C3_StopOnce ==
    /\ terminateCalls <= 1
    /\ child = "none" => terminateCalls = 0
    /\ pc \in {"wait", "exited"} /\ child # "none" => terminateCalls = 1
    /\ pc = "exited" /\ child # "none" => child = "exited"
    /\ outcome # "RUNNING" => pc \in {"finally", "wait", "exited"}

\* C3 witness: a script has exited after a write to the closed pipe of a child
\* that had crashed, and terminate was called once
C3_Witness ==
    /\ pc = "exited"
    /\ outcome = "FAILED"
    /\ tfail.set /\ tfail.kind = "write"
    /\ terminateCalls = 1

ResolvedAs(step, how) ==
    \E j \in 1..Len(resolved) : resolved[j].step = step /\ resolved[j].outcome = how

\* C4: run again and again against the same backing state of the service, the
\* end-to-end script reaches DONE every time its child starts, without cleanup:
\* where the action, the connection and the binding of an earlier run exist and
\* the service answers action.register, auth.pat and binding.create with a
\* conflict, the fallbacks of steps 2, 4 and 5 recover and the run reaches DONE.
C4_RerunReachesDone ==
    /\ outcome = "FAILED" => child = "none"
    /\ pc = "exited" /\ child # "none" =>
           /\ outcome = "DONE"
           /\ \A k \in 1..Len(PrimaryOrder) :
                  ResolvedAs(PrimaryOrder[k], "Success")
                      \/ ResolvedAs(PrimaryOrder[k], "KnownConflict")

\* C4 witness: the second run reached DONE with steps 2, 4 and 5 all recovered
\* from a conflict
C4_Witness ==
    /\ runNo = 2
    /\ pc = "exited"
    /\ outcome = "DONE"
    /\ ResolvedAs("action.register", "KnownConflict")
    /\ ResolvedAs("auth.pat", "KnownConflict")
    /\ ResolvedAs("binding.create", "KnownConflict")

\* C6: whenever action.register is answered with a uniqueness conflict, the
\* handle main synthesizes from {tenant, provider, name} is the handle the
\* service returned for that {tenant, provider, name} when the registration
\* succeeded, for every tenant, provider and name of Tenants, Providers, Names.
C6_SynthesizedHandle ==
    \A j \in 1..Len(resolved) :
        (resolved[j].step = "action.register" /\ resolved[j].outcome = "KnownConflict") =>
            /\ resolved[j].handle \in svc.returned
            /\ svc.returned = {resolved[j].handle}
            /\ action_trn = resolved[j].handle

\* C6 witness: a run recovered the action handle from a conflict, for a tenant,
\* provider and name other than those main is written with
C6_Witness ==
    /\ ResolvedAs("action.register", "KnownConflict")
    /\ tenant = <<"prod">> /\ provider = <<"slack">> /\ action_name = <<"list-repos">>
    /\ action_trn \in svc.returned

\* the three markers, as the claim names them
ClaimMarkers ==
    {<<"UNIQUE constraint failed: ", "actions.trn">>, <<"already exists">>,
     <<"Invalid input">>}

\* the message of the error of a line, "" when there is none
LineMessage(line) ==
    IF line.enc = "json" /\ "error" \in line.obj.keys /\ line.obj.error.isObj
       /\ line.obj.error.hasMessage
    THEN line.obj.error.message
    ELSE <<>>

\* C5: when the response to action.register carries no result, main goes on
\* to action.update with the synthesized handle only if the error message
\* contains one of the three markers; every other response without a result,
\* an unparseable or empty line included, is fatal and no action.update request
\* is written.
C5_RegisterFallback ==
    [][(script = "e2e" /\ pc = "action.register" /\ io = "written" /\ io' = "idle") =>
          LET line == LineRead
              hasResult == line.enc = "json" /\ "result" \in line.obj.keys
              marked == \E mk \in ClaimMarkers : IsSubstr(mk, LineMessage(line))
          IN  IF hasResult
              THEN pc' = "action.update" => action_trn' = line.obj.result.trn
              ELSE IF marked
                   THEN /\ pc' = "action.update"
                        /\ action_trn' = <<"trn:openact:", "test", ":action/", "github",
                                           "/", "get-user", "@v1">>
                   ELSE /\ pc' = "finally"
                        /\ outcome' = "FAILED"
                        /\ sent' = sent
                        /\ resolved'[Len(resolved')].outcome = "Fatal"
      ]_vars

\* C5 witness: main is about to write action.update with the handle it
\* synthesized after an "Invalid input" error
C5_Witness ==
    /\ script = "e2e"
    /\ pc = "action.update" /\ io = "idle"
    /\ ~HasResult(r)
    /\ r.obj.error.message = MsgInvalid
    /\ action_trn = <<"trn:openact:", "test", ":action/", "github", "/", "get-user", "@v1">>

\* C7 as claimed: main never proceeds to auth.pat after an action.update
\* response that carries an error field.
C7_ErrorIsFatal ==
    (script = "e2e" /\ pc = "auth.pat" /\ io = "idle") => "error" \notin r.obj.keys

Min(S) == CHOOSE n \in S : \A m \in S : n <= m

\* C8: when auth.pat gave no Success, main reads auth.list; if the answer has
\* no result, or no connection string containing both the tenant and the
\* provider, the run fails at step 4 and no binding.create request is written;
\* otherwise the first matching entry in list order becomes the auth handle.
C8_AuthFallback ==
    [][(script = "e2e" /\ pc = "auth.list" /\ io = "written" /\ io' = "idle") =>
          LET line == LineRead
              listed == /\ line.enc = "json"
                        /\ "result" \in line.obj.keys
                        /\ line.obj.result.isObj
                        /\ "connections" \in line.obj.result.keys
              conns == IF listed THEN line.obj.result.list ELSE <<>>
              hits == {n \in 1..Len(conns) :
                          /\ conns[n].isStr
                          /\ IsSubstr(tenant, conns[n].s)
                          /\ IsSubstr(provider, conns[n].s)}
          IN  /\ ~HasResult(r)
              /\ IF hits = {}
                 THEN /\ pc' = "finally"
                      /\ outcome' = "FAILED"
                      /\ sent' = sent
                      /\ resolved'[Len(resolved')].step = "auth.pat"
                      /\ resolved'[Len(resolved')].outcome = "Fatal"
                 ELSE /\ pc' = "binding.create"
                      /\ auth_trn' = conns[Min(hits)].s
      ]_vars

\* C8 witness: the auth handle is the second entry of the list, the first entry
\* holding the tenant but not the provider
C8_Witness ==
    /\ script = "e2e"
    /\ pc = "binding.create" /\ io = "idle"
    /\ ResolvedAs("auth.pat", "KnownConflict")
    /\ r.obj.result.list = <<StrEntry(ConnSlack), StrEntry(ConnUser2)>>
    /\ auth_trn = ConnUser2

\* a malformed response: not JSON, or result and error both present
Malformed(v) == v.isNone \/ {"result", "error"} \subseteq v.obj.keys

\* C9 as claimed: a malformed response is never treated as Success and never
\* lets main advance to the next step.
C9_MalformedNeverAdvances ==
    (/\ script = "e2e"
     /\ io = "idle"
     /\ pc \in {"action.delete", "action.update", "auth.pat", "binding.create", "run",
                "execution.get", "execution.list"})
        => ~Malformed(r)

\* C10 as claimed: after a transport failure on any call (write failure,
\* undecodable line, end of stream) no later request is written, the run is
\* torn down and does not end as completed.
C10_TransportFailureFatal ==
    tfail.set =>
        /\ Len(sent) = tfail.nsent
        /\ pc \in {"finally", "wait", "exited"}
        /\ outcome = "FAILED"

\* the calls of the two scripts
Calls == Range(E2ECalls) \cup Range(BasicCalls)

\* C11: at most one request is in flight: a request line is written only when
\* no request waits for its response, every write is followed by one read of
\* one line before the next write, and a script moves on to its next call only
\* through that read.
C11_Sequential ==
    /\ [](Len(stdin) <= 1 /\ (io = "idle" => stdin = <<>>))
    /\ [][
           /\ sent' # sent =>
                 /\ io = "idle" /\ io' = "written"
                 /\ sent' = Append(sent, decode(stdin'[Len(stdin')]))
                 /\ stdout' = stdout
           /\ (io = "written" /\ io' = "idle") =>
                 /\ sent' = sent /\ stdin' = stdin
                 /\ (stdout # <<>> => stdout' = Tail(stdout))
           /\ (pc \in Calls /\ pc' \in Calls /\ pc' # pc) =>
                 (io = "written" /\ io' = "idle")
          ]_vars

\* C11 witness: the third request is in flight, the first two were answered
\* and read
C11_Witness ==
    /\ Len(sent) = 3
    /\ io = "written"
    /\ stdin # <<>>
    /\ stdout = <<>>

\* C12 as claimed: a response is accepted as the Success of a request only if
\* it echoes the id of that request.
C12_IdEchoVerified ==
    (/\ script = "e2e"
     /\ io = "idle"
     /\ pc \in Range(E2ECalls)
     /\ resolved # <<>>
     /\ LastResolved.outcome = "Success"
     /\ LastResolved.nsent = Len(sent))
        => /\ r.obj.isDict
           /\ "id" \in r.obj.keys
           /\ r.obj.id = sent[Len(sent)].id

\* C13 as claimed: main reaches DONE only if the execution.get result held an
\* execution object and the execution.list result holds an executions
\* collection that includes the handle run returned.
C13_DoneOnlyIfVerified ==
    script = "e2e" =>
        /\ (pc = "execution.list" /\ io = "idle") =>
               /\ r.obj.isDict /\ "result" \in r.obj.keys
               /\ r.obj.result.isObj /\ "execution" \in r.obj.result.keys
        /\ outcome = "DONE" =>
               /\ r.obj.isDict /\ "result" \in r.obj.keys
               /\ r.obj.result.isObj /\ "executions" \in r.obj.result.keys
               /\ \E i \in 1..Len(r.obj.result.list) :
                      r.obj.result.list[i] = StrEntry(execution_trn)

\* C14 as claimed: decoding the line send_rpc_request writes gives the request
\* it was called with: the same method and id, and params present exactly when
\* the call has params, the empty mapping included, and equal to them.
C14_RoundTrip ==
    stdin # <<>> =>
        LET d == decode(Head(stdin)) IN
        /\ d.method = args.method
        /\ d.id = args.request_id
        /\ d.hasParams = ~args.params.isNone
        /\ d.hasParams => d.params = args.params.map

\* C15 as claimed: in both scripts the stop of the child completes once the
\* finally block is entered, also when the child ignores the request to
\* terminate.
C15_StopCompletes ==
    (pc = "finally") ~> (pc = "exited" /\ child # "running")

\* the line is a response object that holds a result
LineHasResult(line) ==
    line.enc = "json" /\ line.obj.isDict /\ "result" \in line.obj.keys

\* C16 as claimed: a binding.create response with a result leads to run
\* without binding.get; a response without a result leads to binding.get with
\* {tenant, the same action handle}; after binding.get main goes on to run only
\* if its response holds a result, and is otherwise fatal at step 5 with no run
\* request written.
C16_BindFallback ==
    [][script = "e2e" =>
          /\ (pc = "binding.create" /\ io = "written" /\ io' = "idle") =>
                 IF LineHasResult(LineRead) THEN pc' = "run"
                 ELSE IF LineRead.enc = "json" THEN pc' = "binding.get"
                 ELSE pc' \in {"binding.get", "finally"}
          /\ (pc = "binding.get" /\ io = "written" /\ io' = "idle") =>
                 IF LineHasResult(LineRead) THEN pc' = "run"
                 ELSE /\ pc' = "finally"
                      /\ outcome' = "FAILED"
                      /\ sent' = sent
                      /\ resolved'[Len(resolved')].step = "binding.create"
                      /\ resolved'[Len(resolved')].outcome = "Fatal"
          /\ (pc = "binding.get" /\ sent' # sent) =>
                 /\ sent[Len(sent)].method = "binding.create"
                 /\ sent'[Len(sent')].params =
                        [tenant |-> tenant,
                         action_trn |-> sent[Len(sent)].params.action_trn]
      ]_vars

\* the field of the result a step without a fallback requires
RequiredField(m) ==
    CASE m = "run" -> "execution_trn"
      [] m = "execution.get" -> "execution"
      [] m = "execution.list" -> "executions"

\* the line holds a result and, for run, execution.get and execution.list, the
\* result holds the field the step requires
LineIsSuccess(line, m) ==
    /\ LineHasResult(line)
    /\ m # "health" =>
           line.obj.result.isObj /\ RequiredField(m) \in line.obj.result.keys

\* C17 as claimed: when the response to health, run, execution.get or
\* execution.list has no result, or lacks the field the step requires, main
\* ends in FAILED and writes no further request.
C17_NoFallbackFatal ==
    [][(/\ script = "e2e"
        /\ pc \in {"health", "run", "execution.get", "execution.list"}
        /\ io = "written" /\ io' = "idle"
        /\ ~LineIsSuccess(LineRead, pc))
           => /\ pc' = "finally"
              /\ outcome' = "FAILED"
              /\ sent' = sent
      ]_vars

\* the position of a call of main in program order
CallIndex(m) == CHOOSE k \in 1..Len(E2ECalls) : E2ECalls[k] = m

\* the fallback call of a step, and the primary call it follows
FallbackOf == [x \in {"auth.list", "binding.get"} |->
                  IF x = "auth.list" THEN "auth.pat" ELSE "binding.create"]

\* C18: in one run of main the requests follow program order, so no method is
\* sent twice and no step is retried; auth.list and binding.get are written
\* only right after the primary call of their step returned a value without a
\* result; a run that reaches DONE has written between 9 and 11 requests.
C18_NoCycles ==
    /\ [](script = "e2e" =>
            /\ \A i, j \in 1..Len(sent) :
                   i < j => CallIndex(sent[i].method) < CallIndex(sent[j].method)
            /\ \A i \in 1..Len(sent) :
                   sent[i].method \in DOMAIN FallbackOf =>
                       i > 1 /\ sent[i - 1].method = FallbackOf[sent[i].method]
            /\ outcome = "DONE" => Len(sent) \in 9..11)
    /\ [][(script = "e2e" /\ sent' # sent
             /\ sent'[Len(sent')].method \in DOMAIN FallbackOf)
               => (r.isNone \/ ~r.obj.isDict \/ "result" \notin r.obj.keys)
          ]_vars

\* C18 witness: a run reached DONE through both fallbacks, with 11 requests
C18_Witness ==
    /\ script = "e2e"
    /\ outcome = "DONE"
    /\ Len(sent) = 11
    /\ \E i \in 1..Len(sent) : sent[i].method = "auth.list"
    /\ \E i \in 1..Len(sent) : sent[i].method = "binding.get"

\* the request carries a parameter of that name, blank or not
Carries(q, name) == \E i \in 1..Len(q.query) : q.query[i].name = name

\* the value of the first parameter of that name
FirstValue(q, name) ==
    q.query[CHOOSE i \in 1..Len(q.query) :
                /\ q.query[i].name = name
                /\ \A j \in 1..(i - 1) : q.query[j].name # name].value

\* the non-blank values of the parameters of that name, in order
NonBlank(q, name) ==
    SelectSeq(q.query, LAMBDA p : p.name = name /\ p.value # "")

OnPrefix(q) == Len(q.path) >= 2 /\ q.path[1] = "/oauth" /\ q.path[2] = "/callback"

\* C19 as claimed: a request on the prefix that carries a code parameter and no
\* error parameter is answered 200 and its code is the content of the file;
\* a request with an error parameter or without a code is answered 400, one on
\* another path 404, and these leave the file unchanged.
C19_AsClaimed ==
    [][script = "callback_server" =>
          LET q == cb_path' IN
          IF OnPrefix(q) /\ Carries(q, "code") /\ ~Carries(q, "error")
          THEN /\ cb_status' = 200
               /\ cb_file' = [exists |-> TRUE, content |-> FirstValue(q, "code")]
          ELSE /\ cb_file' = cb_file
               /\ cb_status' = IF OnPrefix(q) THEN 400 ELSE 404
      ]_vars

\* C19 amended: parameters with a blank value count as not given.  A request
\* on the prefix with a non-blank code and no non-blank error is answered 200
\* and the first non-blank code becomes the content of the file; every other
\* request leaves the file unchanged and is answered 400 on the prefix (a
\* non-blank error, or no non-blank code) and 404 elsewhere.  So the file
\* holds the code of the most recent request answered 200.
C19_CallbackFile ==
    /\ [](cb_status = 200 =>
            cb_file = [exists |-> TRUE, content |-> NonBlank(cb_path, "code")[1].value])
    /\ [][script = "callback_server" =>
            LET q == cb_path' IN
            IF OnPrefix(q) /\ NonBlank(q, "code") # <<>> /\ NonBlank(q, "error") = <<>>
            THEN /\ cb_status' = 200
                 /\ cb_file' = [exists |-> TRUE,
                                content |-> NonBlank(q, "code")[1].value]
            ELSE /\ cb_file' = cb_file
                 /\ cb_status' = IF OnPrefix(q) THEN 400 ELSE 404
          ]_vars

\* C19 witness: a request with an error and a code was answered 400 and the
\* file still holds the code of an earlier request
C19_Witness ==
    /\ cb_status = 400
    /\ cb_path.query = <<QueryParam("error", "access_denied"), QueryParam("code", "xyz789")>>
    /\ cb_file = [exists |-> TRUE, content |-> "abc123"]

\* C20: when the child answers every request it has read or closes its
\* output, every run of main ends: the outcome is DONE or FAILED, the script
\* has left its finally block and the child is not running, whatever the
\* responses were.
C20_Terminates ==
    (script = "e2e") =>
        <>[](/\ pc = "exited"
             /\ outcome \in {"DONE", "FAILED"}
             /\ child # "running")

\* C20 witness: a run ended in DONE and the child, which had ignored the
\* request to terminate, was killed
C20_Witness ==
    /\ script = "e2e"
    /\ pc = "exited"
    /\ outcome = "DONE"
    /\ killCalls = 1
    /\ child = "exited"

====
